---- MODULE Spec2Model ----
(***************************************************************************)
(* A model of the reducer tree (a treap that caches a monoid fold in every *)
(* node) of reducer_tree.h, in its final form (src/README.md:618-1003).    *)
(*                                                                         *)
(* A subtree handle (std::unique_ptr<ReducerNode>) is a value: Null for    *)
(* nullptr, or a record holding the node's fields and its two subtrees.    *)
(* Ownership is exclusive in the source, so a handle and the subtree it    *)
(* owns are the same thing.  Keys are unique, so a node is identified by   *)
(* its key.                                                                *)
(***************************************************************************)
EXTENDS Integers, Sequences, FiniteSets, TLC

\* ------------------------------------------------------------------ bounds
MaxKey  == 3        \* keys are 1..MaxKey
MaxPrio == 1        \* priorities drawn are 0..MaxPrio (ties are possible)
MaxSize == 2        \* FirstFit::Alloc is called with sizes up to MaxSize
MaxBlocks == 3      \* Alloc is not called while MaxBlocks blocks are allocated

Keys   == 1..MaxKey
Prios  == 0..MaxPrio
\* V is an opaque payload the tree only stores and hands back: two distinct
\* values (those of Test1) tell a kept value from an overwritten one.
Values == {"hello", "a"}
\* A query key may be a key never inserted, above every key of the tree.
QueryKeys == 1..(MaxKey + 1)
\* The functors ForAll is called with, each given by the set of keys at which
\* it returns false: one that always returns true, one that always returns
\* false and, for each key, one that returns false at that key only.
Functors == {{}, Keys} \cup {{k} : k \in Keys}

\* --------------------------------------------------------------- reducer
\* The Reducer template parameter is instantiated with concatenation, as
\* StringCatReducer does.  The seed keeps both the key and the value, so two
\* folds are equal only if they combine the same entries in the same order.
ReducerDefault == << >>
ReducerSeed(k, v) == << <<k, v>> >>
ReducerPlus(a, b) == a \o b

\* The value of _reduced between construction and the first
\* RecomputeReduced ("After construction, the _reduced value is in an
\* undefined state"): a value no fold of entries can equal.
UndefinedReduced == << <<0, "undefined">> >>

\* ----------------------------------------------------------------- nodes
Null == [nil |-> TRUE]

\* ReducerNode(priority, key, value): null children, _reduced not computed.
ReducerNode(p, k, v) ==
  [nil |-> FALSE, priority |-> p, key |-> k, value |-> v,
   reduced |-> UndefinedReduced, left |-> Null, right |-> Null]

\* RecomputeReduced with the operands combined as here + left, then
\* right + that: right only for a commutative reducer.
RecomputeReducedCommuted(n) ==
  LET r0 == ReducerSeed(n.key, n.value)
      r1 == IF ~n.left.nil THEN ReducerPlus(r0, n.left.reduced) ELSE r0
      r2 == IF ~n.right.nil THEN ReducerPlus(n.right.reduced, r1) ELSE r1
  IN  [n EXCEPT !.reduced = r2]

RecomputeReduced(n) ==
  LET r0 == ReducerSeed(n.key, n.value)
      r1 == IF ~n.left.nil THEN ReducerPlus(n.left.reduced, r0) ELSE r0
      r2 == IF ~n.right.nil THEN ReducerPlus(r1, n.right.reduced) ELSE r1
  IN  [n EXCEPT !.reduced = r2]

SetLeftAndUpdateReduced(n, new_left) ==
  RecomputeReduced([n EXCEPT !.left = new_left])

SetRightAndUpdateReduced(n, new_right) ==
  RecomputeReduced([n EXCEPT !.right = new_right])

SetBothAndUpdateReduced(n, new_left, new_right) ==
  RecomputeReduced([n EXCEPT !.left = new_left, !.right = new_right])

\* Node::Reduce
Reduce(node) == IF ~node.nil THEN node.reduced ELSE ReducerDefault

RECURSIVE NodeFind(_, _)
RECURSIVE NodeErase(_, _)
RECURSIVE Merge(_, _)
RECURSIVE Split(_, _)
RECURSIVE NodeInsert(_, _)
RECURSIVE NodePrefixLt(_, _)
RECURSIVE NodeForAll(_, _)
RECURSIVE NodeValidate(_, _, _)

\* Node::Find that gives up instead of descending into the right child.
NodeFindLeftOnly(root, key) ==
  IF root.nil THEN [found |-> FALSE]
  ELSE IF key < root.key THEN NodeFind(root.left, key)
  ELSE IF key > root.key THEN [found |-> FALSE]
  ELSE [found |-> TRUE, key |-> root.key, value |-> root.value,
        reduced |-> root.reduced]

\* Node::Find.  found = FALSE is std::nullopt.
NodeFind(root, key) ==
  IF root.nil THEN [found |-> FALSE]
  ELSE IF key < root.key THEN NodeFind(root.left, key)
  ELSE IF key > root.key THEN NodeFind(root.right, key)
  ELSE [found |-> TRUE, key |-> root.key, value |-> root.value,
        reduced |-> root.reduced]

\* Merge that returns `a` alone when both trees are present.
MergeDroppingB(a, b) ==
  IF a.nil THEN b ELSE a

\* Merge that makes `a` the root whenever both are present, without
\* comparing the priorities.
MergeIgnoringPriority(a, b) ==
  IF a.nil THEN b
  ELSE IF b.nil THEN a
  ELSE RecomputeReduced([a EXCEPT !.right = Merge(a.right, b)])

\* Node::Merge
Merge(a, b) ==
  IF a.nil THEN b
  ELSE IF b.nil THEN a
  ELSE IF a.priority > b.priority
       THEN RecomputeReduced([a EXCEPT !.right = Merge(a.right, b)])
       ELSE RecomputeReduced([b EXCEPT !.left = Merge(a, b.left)])

\* Node::Erase that puts the child back only when something was erased below:
\* the child pointer it moved from stays null otherwise.
NodeEraseLosingChild(node, key) ==
  IF node.nil THEN [tree |-> node, erased |-> FALSE]
  ELSE IF key < node.key THEN
       LET sub == NodeErase(node.left, key)
       IN  [tree |-> SetLeftAndUpdateReduced(
                       node, IF sub.erased THEN sub.tree ELSE Null),
            erased |-> sub.erased]
  ELSE IF key > node.key THEN
       LET sub == NodeErase(node.right, key)
       IN  [tree |-> SetRightAndUpdateReduced(
                       node, IF sub.erased THEN sub.tree ELSE Null),
            erased |-> sub.erased]
  ELSE [tree |-> Merge(node.left, node.right), erased |-> TRUE]

\* Node::Erase.  The result is the new subtree and the out-parameter erased.
NodeErase(node, key) ==
  IF node.nil THEN [tree |-> node, erased |-> FALSE]
  ELSE IF key < node.key THEN
       LET sub == NodeErase(node.left, key)
       IN  [tree |-> SetLeftAndUpdateReduced(node, sub.tree),
            erased |-> sub.erased]
  ELSE IF key > node.key THEN
       LET sub == NodeErase(node.right, key)
       IN  [tree |-> SetRightAndUpdateReduced(node, sub.tree),
            erased |-> sub.erased]
  ELSE [tree |-> Merge(node.left, node.right), erased |-> TRUE]

\* Node::Split that relinks the nodes on its path without recomputing their
\* reduced values.
SplitKeepingReduced(node, key) ==
  IF node.nil THEN [abort |-> FALSE, left |-> Null, right |-> Null]
  ELSE IF key < node.key THEN
       LET sub == Split(node.left, key)
       IN  IF sub.abort THEN sub
           ELSE [abort |-> FALSE, left |-> sub.left,
                 right |-> [node EXCEPT !.left = sub.right]]
  ELSE IF key > node.key THEN
       LET sub == Split(node.right, key)
       IN  IF sub.abort THEN sub
           ELSE [abort |-> FALSE,
                 left |-> [node EXCEPT !.right = sub.left],
                 right |-> sub.right]
  ELSE [abort |-> TRUE, left |-> Null, right |-> Null]

\* Node::Split that takes a node holding the key itself for one holding a
\* smaller key, and so never reaches the assertion.
SplitKeepingEqual(node, key) ==
  IF node.nil THEN [abort |-> FALSE, left |-> Null, right |-> Null]
  ELSE IF key < node.key THEN
       LET sub == Split(node.left, key)
       IN  [abort |-> FALSE, left |-> sub.left,
            right |-> SetLeftAndUpdateReduced(node, sub.right)]
  ELSE LET sub == Split(node.right, key)
       IN  [abort |-> FALSE,
            left |-> SetRightAndUpdateReduced(node, sub.left),
            right |-> sub.right]

\* Node::Split.  abort = TRUE is the assert(false) reached on an equal key.
Split(node, key) ==
  IF node.nil THEN [abort |-> FALSE, left |-> Null, right |-> Null]
  ELSE IF key < node.key THEN
       LET sub == Split(node.left, key)
       IN  IF sub.abort THEN sub
           ELSE [abort |-> FALSE, left |-> sub.left,
                 right |-> SetLeftAndUpdateReduced(node, sub.right)]
  ELSE IF key > node.key THEN
       LET sub == Split(node.right, key)
       IN  IF sub.abort THEN sub
           ELSE [abort |-> FALSE,
                 left |-> SetRightAndUpdateReduced(node, sub.left),
                 right |-> sub.right]
  ELSE [abort |-> TRUE, left |-> Null, right |-> Null]

\* Node::Insert that descends into the right child for a smaller key and
\* into the left child for a greater one.
NodeInsertWrongSide(root, node) ==
  IF root.nil THEN [abort |-> FALSE, tree |-> RecomputeReduced(node)]
  ELSE IF node.priority < root.priority THEN
       IF node.key < root.key THEN
            LET sub == NodeInsert(root.right, node)
            IN  IF sub.abort THEN sub
                ELSE [abort |-> FALSE,
                      tree |-> SetRightAndUpdateReduced(root, sub.tree)]
       ELSE IF node.key > root.key THEN
            LET sub == NodeInsert(root.left, node)
            IN  IF sub.abort THEN sub
                ELSE [abort |-> FALSE,
                      tree |-> SetLeftAndUpdateReduced(root, sub.tree)]
       ELSE [abort |-> TRUE, tree |-> Null]
  ELSE LET sp == Split(root, node.key)
       IN  IF sp.abort THEN [abort |-> TRUE, tree |-> Null]
           ELSE [abort |-> FALSE,
                 tree |-> SetBothAndUpdateReduced(node, sp.left, sp.right)]

\* Node::Insert that descends on an equal priority too, so that the root
\* stays the root on a tie.
NodeInsertDescendingOnTie(root, node) ==
  IF root.nil THEN
       IF node.left.nil /\ node.right.nil
       THEN [abort |-> FALSE, tree |-> RecomputeReduced(node)]
       ELSE [abort |-> TRUE, tree |-> Null]
  ELSE IF node.priority <= root.priority THEN
       IF node.key < root.key THEN
            LET sub == NodeInsert(root.left, node)
            IN  IF sub.abort THEN sub
                ELSE [abort |-> FALSE,
                      tree |-> SetLeftAndUpdateReduced(root, sub.tree)]
       ELSE IF node.key > root.key THEN
            LET sub == NodeInsert(root.right, node)
            IN  IF sub.abort THEN sub
                ELSE [abort |-> FALSE,
                      tree |-> SetRightAndUpdateReduced(root, sub.tree)]
       ELSE [abort |-> TRUE, tree |-> Null]
  ELSE LET sp == Split(root, node.key)
       IN  IF sp.abort THEN [abort |-> TRUE, tree |-> Null]
           ELSE [abort |-> FALSE,
                 tree |-> SetBothAndUpdateReduced(node, sp.left, sp.right)]

\* Node::Insert that, when the node becomes the root, hangs the whole old
\* subtree on its left instead of splitting it.
NodeInsertWithoutSplit(root, node) ==
  IF root.nil THEN
       IF node.left.nil /\ node.right.nil
       THEN [abort |-> FALSE, tree |-> RecomputeReduced(node)]
       ELSE [abort |-> TRUE, tree |-> Null]
  ELSE IF node.priority < root.priority THEN
       IF node.key < root.key THEN
            LET sub == NodeInsert(root.left, node)
            IN  IF sub.abort THEN sub
                ELSE [abort |-> FALSE,
                      tree |-> SetLeftAndUpdateReduced(root, sub.tree)]
       ELSE IF node.key > root.key THEN
            LET sub == NodeInsert(root.right, node)
            IN  IF sub.abort THEN sub
                ELSE [abort |-> FALSE,
                      tree |-> SetRightAndUpdateReduced(root, sub.tree)]
       ELSE [abort |-> TRUE, tree |-> Null]
  ELSE [abort |-> FALSE, tree |-> SetBothAndUpdateReduced(node, root, Null)]

\* Node::Insert.  abort = TRUE is a failed assertion (the program stops).
NodeInsert(root, node) ==
  IF root.nil THEN
       IF node.left.nil /\ node.right.nil
       THEN [abort |-> FALSE, tree |-> RecomputeReduced(node)]
       ELSE [abort |-> TRUE, tree |-> Null]
  ELSE IF node.priority < root.priority THEN
       \* root remains root.
       IF node.key < root.key THEN
            LET sub == NodeInsert(root.left, node)
            IN  IF sub.abort THEN sub
                ELSE [abort |-> FALSE,
                      tree |-> SetLeftAndUpdateReduced(root, sub.tree)]
       ELSE IF node.key > root.key THEN
            LET sub == NodeInsert(root.right, node)
            IN  IF sub.abort THEN sub
                ELSE [abort |-> FALSE,
                      tree |-> SetRightAndUpdateReduced(root, sub.tree)]
       ELSE [abort |-> TRUE, tree |-> Null]
  ELSE \* node becomes root.  Split root according to node's key.
       LET sp == Split(root, node.key)
       IN  IF sp.abort THEN [abort |-> TRUE, tree |-> Null]
           ELSE [abort |-> FALSE,
                 tree |-> SetBothAndUpdateReduced(node, sp.left, sp.right)]

\* Node::PrefixLt that counts the entry of the query key itself.
NodePrefixLe(node, key) ==
  IF node.nil THEN ReducerDefault
  ELSE IF key < node.key THEN NodePrefixLt(node.left, key)
  ELSE IF key = node.key
       THEN ReducerPlus(Reduce(node.left), ReducerSeed(node.key, node.value))
  ELSE ReducerPlus(ReducerPlus(Reduce(node.left),
                               ReducerSeed(node.key, node.value)),
                   NodePrefixLt(node.right, key))

\* Node::PrefixLt.  The comparison is a std::strong_ordering, so one of the
\* three branches is always taken and the final assert(false) is dead.
NodePrefixLt(node, key) ==
  IF node.nil THEN ReducerDefault
  ELSE IF key < node.key THEN NodePrefixLt(node.left, key)
  ELSE IF key = node.key THEN Reduce(node.left)
  ELSE ReducerPlus(ReducerPlus(Reduce(node.left),
                               ReducerSeed(node.key, node.value)),
                   NodePrefixLt(node.right, key))

\* ReducerNode::ForAll that calls the functor on a node before it visits the
\* node's left subtree.
NodeForAllPreOrder(n, F) ==
  LET here == << <<n.key, n.value, n.reduced>> >>
      l == IF ~n.left.nil THEN NodeForAll(n.left, F)
           ELSE [result |-> TRUE, calls |-> << >>]
      r == IF ~n.right.nil THEN NodeForAll(n.right, F)
           ELSE [result |-> TRUE, calls |-> << >>]
  IN  IF n.key \in F THEN [result |-> FALSE, calls |-> here]
      ELSE IF ~l.result THEN [result |-> FALSE, calls |-> here \o l.calls]
      ELSE IF ~r.result
           THEN [result |-> FALSE, calls |-> here \o l.calls \o r.calls]
      ELSE [result |-> TRUE, calls |-> here \o l.calls \o r.calls]

\* ReducerNode::ForAll that visits every node, false return or not, and
\* returns whether every call returned true.
NodeForAllToTheEnd(n, F) ==
  LET l == IF ~n.left.nil THEN NodeForAll(n.left, F)
           ELSE [result |-> TRUE, calls |-> << >>]
      here == Append(l.calls, <<n.key, n.value, n.reduced>>)
      r == IF ~n.right.nil THEN NodeForAll(n.right, F)
           ELSE [result |-> TRUE, calls |-> << >>]
  IN  [result |-> l.result /\ n.key \notin F /\ r.result,
       calls |-> here \o r.calls]

\* ReducerNode::ForAll on a non-null node.  The functor is modelled by the
\* set F of keys at which it returns false; calls is the sequence of
\* argument triples it has been called with, in call order.
NodeForAll(n, F) ==
  LET l == IF ~n.left.nil THEN NodeForAll(n.left, F)
           ELSE [result |-> TRUE, calls |-> << >>]
      here == Append(l.calls, <<n.key, n.value, n.reduced>>)
      r == IF ~n.right.nil THEN NodeForAll(n.right, F)
           ELSE [result |-> TRUE, calls |-> << >>]
  IN  IF ~l.result THEN [result |-> FALSE, calls |-> l.calls]
      ELSE IF n.key \in F THEN [result |-> FALSE, calls |-> here]
      ELSE IF ~r.result THEN [result |-> FALSE, calls |-> here \o r.calls]
      ELSE [result |-> TRUE, calls |-> here \o r.calls]

\* ReducerNode::Validate on a non-null node.  A bound is a set: empty for a
\* null pointer, {k} for a pointer to k.  ok = FALSE is a failed assertion.
NodeValidate(n, lower_bound, upper_bound) ==
  LET l == IF ~n.left.nil THEN NodeValidate(n.left, lower_bound, {n.key})
           ELSE [ok |-> TRUE, size |-> 0]
      r == IF ~n.right.nil THEN NodeValidate(n.right, {n.key}, upper_bound)
           ELSE [ok |-> TRUE, size |-> 0]
      rhere0 == ReducerSeed(n.key, n.value)
      rhere1 == IF ~n.left.nil THEN ReducerPlus(n.left.reduced, rhere0)
                ELSE rhere0
      rhere2 == IF ~n.right.nil THEN ReducerPlus(rhere1, n.right.reduced)
                ELSE rhere1
  IN  [ok |-> /\ \A b \in lower_bound : b < n.key
              /\ \A b \in upper_bound : n.key < b
              /\ ~n.left.nil => (n.priority >= n.left.priority /\ l.ok)
              /\ ~n.right.nil => (n.priority >= n.right.priority /\ r.ok)
              /\ rhere2 = n.reduced,
       size |-> 1 + l.size + r.size]

\* ------------------------------------------------------------ the facade
VARIABLES
  root,      \* ReducerTree::_root
  size,      \* ReducerTree::_size
  asserted,  \* TRUE once an assert has failed (the program has aborted)
  op,        \* the last call made: its name and arguments
  ret,       \* what the last call returned
  pre,       \* _root and _size as they were when the last call was made
  expect,    \* the std::map the tests drive with the same calls
  balance,   \* per key: the number of Insert calls that returned true
             \* minus the number of Erase calls that returned true
  inserted,  \* per key: the value passed to the most recent Insert call
             \* that returned true, NoValue if there was none or an Erase
             \* call for the key has returned true since
  pending,   \* a round trip: the keys still to insert and still to erase
  sub,       \* a subtree handle a ReducerNode function is called on
  call,      \* that call: the function's name and its other arguments
  result,    \* what that call returned
  allocated,   \* FirstFit::_allocated_blocks
  high_water,  \* FirstFit::_high_water
  ffAsserted,  \* TRUE once an assert of fitness.cc has failed
  ffop,        \* the last FirstFit call: its name, its argument, the block
               \* it returned or freed, and the state it was made in
  maxEnd       \* the greatest end address of a block Alloc has returned

ffVars == <<allocated, high_water, ffAsserted, ffop, maxEnd>>
facadeVars ==
  <<root, size, asserted, op, ret, pre, expect, balance, inserted>>
nodeVars == <<sub, call, result>>
vars == <<root, size, asserted, op, ret, pre, expect, balance, inserted,
          pending, sub, call, result,
          allocated, high_water, ffAsserted, ffop, maxEnd>>

\* expect[k] = NoValue: k is not in the map.
NoValue == "none"

\* What a read through the third reference of Find's result may give: Find
\* builds a temporary tuple holding a copy of _reduced and returns a tuple of
\* references made from it, so the reference outlives what it refers to.
DanglingReduced == << <<0, "dangling">> >>

Call(name, key, value, priority, fset) ==
  [name |-> name, key |-> key, value |-> value, priority |-> priority,
   fset |-> fset]

Size == size
Empty == size = 0

\* No round trip is under way.
NoRoundTrip == [S |-> {}, ins |-> {}, era |-> {}]

\* No ReducerNode function has been called from outside the facade.
NoCall == [name |-> "none", key |-> 0, priority |-> 0, value |-> NoValue]
NodeIdle == sub = Null /\ call = NoCall /\ result = Null

\* A default-constructed ReducerTree, and the empty std::map beside it.
FacadeInit ==
  /\ root = Null
  /\ size = 0
  /\ asserted = FALSE
  /\ op = Call("none", 0, NoValue, 0, {})
  /\ ret = FALSE
  /\ pre = [root |-> Null, size |-> 0]
  /\ expect = [k \in Keys |-> NoValue]
  /\ balance = [k \in Keys |-> 0]
  /\ inserted = [k \in Keys |-> NoValue]

\* Block::Block
Block(start, length) == [start |-> start, length |-> length]

NoBlock == Block(0, 0)
NoFirstFitCall ==
  [name |-> "none", size |-> 0, block |-> NoBlock, pre |-> {}, preHigh |-> 0,
   refill |-> FALSE]

\* A default-constructed FirstFit.
FirstFitInit ==
  /\ allocated = {}
  /\ high_water = 0
  /\ ffAsserted = FALSE
  /\ ffop = NoFirstFitCall
  /\ maxEnd = 0

Init ==
  /\ FacadeInit
  /\ pending = NoRoundTrip
  /\ NodeIdle
  /\ FirstFitInit

\* The subtree t with the value of the node holding key replaced.
RECURSIVE WithValue(_, _, _)
WithValue(t, key, value) ==
  IF t.nil THEN t
  ELSE IF key < t.key THEN [t EXCEPT !.left = WithValue(t.left, key, value)]
  ELSE IF key > t.key THEN [t EXCEPT !.right = WithValue(t.right, key, value)]
  ELSE [t EXCEPT !.value = value]

\* ReducerTree::Insert that stores the new value when the key is present, as
\* an overwriting insert would.
InsertOverwriting(key, value) ==
  /\ ~asserted
  /\ pre' = [root |-> root, size |-> size]
  /\ expect' = IF expect[key] = NoValue THEN [expect EXCEPT ![key] = value]
                ELSE expect
  /\ IF NodeFind(root, key).found
     THEN /\ ret' = FALSE
          /\ root' = WithValue(root, key, value)
          /\ op' = Call("Insert", key, value, 0, {})
          /\ UNCHANGED <<size, asserted, balance, inserted>>
     ELSE \E priority \in Prios :
          LET ins == NodeInsert(root, ReducerNode(priority, key, value))
          IN  /\ op' = Call("Insert", key, value, priority, {})
              /\ ~ins.abort
              /\ root' = ins.tree
              /\ size' = size + 1
              /\ ret' = TRUE
              /\ balance' = [balance EXCEPT ![key] = @ + 1]
              /\ inserted' = [inserted EXCEPT ![key] = value]
              /\ asserted' = asserted

\* ReducerTree::Insert without the call to Find: Node::Insert is called
\* whether the key is present or not.
InsertWithoutFind(key, value) ==
  /\ ~asserted
  /\ pre' = [root |-> root, size |-> size]
  /\ expect' = IF expect[key] = NoValue THEN [expect EXCEPT ![key] = value]
                ELSE expect
  /\ \E priority \in Prios :
       LET ins == NodeInsert(root, ReducerNode(priority, key, value))
       IN  /\ op' = Call("Insert", key, value, priority, {})
           /\ IF ins.abort
              THEN /\ asserted' = TRUE
                   /\ UNCHANGED <<root, size, ret, balance, inserted>>
              ELSE /\ root' = ins.tree
                   /\ size' = size + 1
                   /\ ret' = TRUE
                   /\ balance' = [balance EXCEPT ![key] = @ + 1]
                   /\ inserted' = [inserted EXCEPT ![key] = value]
                   /\ asserted' = asserted

\* ReducerTree::Insert, with the std::map insert the tests make next to it.
Insert(key, value) ==
  /\ ~asserted
  /\ pre' = [root |-> root, size |-> size]
  /\ expect' = IF expect[key] = NoValue THEN [expect EXCEPT ![key] = value]
                ELSE expect
  /\ IF NodeFind(root, key).found
     THEN /\ ret' = FALSE
          /\ op' = Call("Insert", key, value, 0, {})
          /\ UNCHANGED <<root, size, asserted, balance, inserted>>
     ELSE \E priority \in Prios :
          LET ins == NodeInsert(root, ReducerNode(priority, key, value))
          IN  /\ op' = Call("Insert", key, value, priority, {})
              /\ IF ins.abort
                 THEN /\ asserted' = TRUE
                      /\ UNCHANGED <<root, size, ret, balance, inserted>>
                 ELSE /\ root' = ins.tree
                      /\ size' = size + 1
                      /\ ret' = TRUE
                      /\ balance' = [balance EXCEPT ![key] = @ + 1]
                      /\ inserted' = [inserted EXCEPT ![key] = value]
                      /\ asserted' = asserted

\* ReducerTree::Erase without the decrement of _size.
EraseKeepingSize(key) ==
  /\ ~asserted
  /\ pre' = [root |-> root, size |-> size]
  /\ op' = Call("Erase", key, NoValue, 0, {})
  /\ expect' = [expect EXCEPT ![key] = NoValue]
  /\ LET er == NodeErase(root, key)
     IN  /\ root' = er.tree
         /\ ret' = er.erased
         /\ balance' = IF er.erased THEN [balance EXCEPT ![key] = @ - 1]
                       ELSE balance
         /\ inserted' = IF er.erased THEN [inserted EXCEPT ![key] = NoValue]
                        ELSE inserted
  /\ UNCHANGED <<size, asserted>>

\* ReducerTree::Erase, with the std::map erase the tests make next to it.
Erase(key) ==
  /\ ~asserted
  /\ pre' = [root |-> root, size |-> size]
  /\ op' = Call("Erase", key, NoValue, 0, {})
  /\ expect' = [expect EXCEPT ![key] = NoValue]
  /\ LET er == NodeErase(root, key)
     IN  /\ root' = er.tree
         /\ size' = IF er.erased THEN size - 1 ELSE size
         /\ ret' = er.erased
         /\ balance' = IF er.erased THEN [balance EXCEPT ![key] = @ - 1]
                       ELSE balance
         /\ inserted' = IF er.erased THEN [inserted EXCEPT ![key] = NoValue]
                        ELSE inserted
  /\ asserted' = asserted

\* ReducerTree::Find
Find(key) ==
  /\ ~asserted
  /\ pre' = [root |-> root, size |-> size]
  /\ op' = Call("Find", key, NoValue, 0, {})
  /\ LET res == NodeFind(root, key)
     IN  IF res.found
         THEN \E r \in {res.reduced, DanglingReduced} :
                 ret' = [res EXCEPT !.reduced = r]
         ELSE ret' = res
  /\ UNCHANGED <<root, size, asserted, expect, balance, inserted>>

\* ReducerTree::PrefixLt that splits the tree at an absent key and keeps
\* the left part as the tree.
PrefixLtSplitting(key) ==
  /\ ~asserted
  /\ pre' = [root |-> root, size |-> size]
  /\ op' = Call("PrefixLt", key, NoValue, 0, {})
  /\ ret' = NodePrefixLt(root, key)
  /\ root' = IF Split(root, key).abort THEN root ELSE Split(root, key).left
  /\ UNCHANGED <<size, asserted, expect, balance, inserted>>

\* ReducerTree::PrefixLt
PrefixLt(key) ==
  /\ ~asserted
  /\ pre' = [root |-> root, size |-> size]
  /\ op' = Call("PrefixLt", key, NoValue, 0, {})
  /\ ret' = NodePrefixLt(root, key)
  /\ UNCHANGED <<root, size, asserted, expect, balance, inserted>>

\* ReducerTree::ForAll with a functor that returns false on the keys in F.
ForAll(F) ==
  /\ ~asserted
  /\ pre' = [root |-> root, size |-> size]
  /\ op' = Call("ForAll", 0, NoValue, 0, F)
  /\ ret' = IF root.nil THEN [result |-> TRUE, calls |-> << >>]
            ELSE NodeForAll(root, F)
  /\ UNCHANGED <<root, size, asserted, expect, balance, inserted>>

\* ReducerTree::Validate
Validate ==
  /\ ~asserted
  /\ pre' = [root |-> root, size |-> size]
  /\ op' = Call("Validate", 0, NoValue, 0, {})
  /\ LET v == IF ~root.nil THEN NodeValidate(root, {}, {})
              ELSE [ok |-> TRUE, size |-> 0]
     IN  /\ ret' = (v.ok /\ v.size = size)
         /\ asserted' = ~(v.ok /\ v.size = size)
  /\ UNCHANGED <<root, size, expect, balance, inserted>>

Next ==
  \/ \E key \in Keys, value \in Values :
        Insert(key, value) /\ UNCHANGED <<pending, nodeVars, ffVars>>
  \/ \E key \in Keys : Erase(key) /\ UNCHANGED <<pending, nodeVars, ffVars>>
  \/ \E key \in Keys : Find(key) /\ UNCHANGED <<pending, nodeVars, ffVars>>
  \/ \E key \in QueryKeys : PrefixLt(key) /\ UNCHANGED <<pending, nodeVars, ffVars>>
  \/ \E F \in Functors : ForAll(F) /\ UNCHANGED <<pending, nodeVars, ffVars>>
  \/ Validate /\ UNCHANGED <<pending, nodeVars, ffVars>>

Spec == Init /\ [][Next]_vars

\* ------------------------------------------------------------ round trips
\* Every key of a set S is inserted, in any order and with any priorities,
\* and then every key of S is erased, in any order.
RoundTripInit ==
  /\ FacadeInit
  /\ NodeIdle
  /\ FirstFitInit
  /\ \E S \in SUBSET Keys : pending = [S |-> S, ins |-> S, era |-> {}]

RoundTripInsert(key, value) ==
  /\ key \in pending.ins
  /\ Insert(key, value)
  /\ pending' = [pending EXCEPT !.ins = @ \ {key},
                                !.era = IF pending.ins = {key} THEN pending.S
                                        ELSE @]
  /\ UNCHANGED <<nodeVars, ffVars>>

RoundTripErase(key) ==
  /\ pending.ins = {}
  /\ key \in pending.era
  /\ Erase(key)
  /\ pending' = [pending EXCEPT !.era = @ \ {key}]
  /\ UNCHANGED <<nodeVars, ffVars>>

RoundTripNext ==
  \/ \E key \in Keys, value \in Values : RoundTripInsert(key, value)
  \/ \E key \in Keys : RoundTripErase(key)

SpecRoundTrip == RoundTripInit /\ [][RoundTripNext]_vars

\* ------------------------------------------------- distinct priorities
\* The priorities drawn when no two nodes of the tree are to share one: as
\* many as there are keys.
DistinctPrios == 0..(MaxKey - 1)

RECURSIVE PrioritiesIn(_)
PrioritiesIn(t) ==
  IF t.nil THEN {}
  ELSE {t.priority} \cup PrioritiesIn(t.left) \cup PrioritiesIn(t.right)

\* ReducerTree::Insert when _uniform_distribution(_engine) returns priority.
InsertDrawing(key, value, priority) ==
  /\ ~asserted
  /\ pre' = [root |-> root, size |-> size]
  /\ expect' = IF expect[key] = NoValue THEN [expect EXCEPT ![key] = value]
                ELSE expect
  /\ IF NodeFind(root, key).found
     THEN /\ ret' = FALSE
          /\ op' = Call("Insert", key, value, 0, {})
          /\ UNCHANGED <<root, size, asserted, balance, inserted>>
     ELSE LET ins == NodeInsert(root, ReducerNode(priority, key, value))
          IN  /\ op' = Call("Insert", key, value, priority, {})
              /\ IF ins.abort
                 THEN /\ asserted' = TRUE
                      /\ UNCHANGED <<root, size, ret, balance, inserted>>
                 ELSE /\ root' = ins.tree
                      /\ size' = size + 1
                      /\ ret' = TRUE
                      /\ balance' = [balance EXCEPT ![key] = @ + 1]
                      /\ inserted' = [inserted EXCEPT ![key] = value]
                      /\ asserted' = asserted

\* An Insert whose draw differs from every priority in the tree.
DistinctInsert(key, value, priority) ==
  /\ priority \notin PrioritiesIn(root)
  /\ InsertDrawing(key, value, priority)
  /\ UNCHANGED <<pending, nodeVars, ffVars>>

DistinctErase(key) ==
  /\ Erase(key)
  /\ UNCHANGED <<pending, nodeVars, ffVars>>

DistinctNext ==
  \/ \E key \in Keys, value \in Values, priority \in DistinctPrios :
        DistinctInsert(key, value, priority)
  \/ \E key \in Keys : DistinctErase(key)

SpecDistinct == Init /\ [][DistinctNext]_vars

\* ------------------------------------------------- ReducerNode, called alone
\* ReducerNode::MakeNodeForTest
MakeNodeForTest(priority, key, value, left, right) ==
  SetBothAndUpdateReduced(ReducerNode(priority, key, value), left, right)

\* The subtrees MakeNodeForTest can build that are in BST order with keys in
\* lo..hi and in heap order with priorities up to pmax (a child may have its
\* parent's priority).
RECURSIVE Treaps(_, _, _)
Treaps(lo, hi, pmax) ==
  {Null} \cup
  UNION {UNION {UNION {
    {MakeNodeForTest(priority, key, value, left, right) :
        left \in Treaps(lo, key - 1, priority),
        right \in Treaps(key + 1, hi, priority)} :
    value \in Values} : priority \in 0..pmax} : key \in lo..hi}

NodeInit ==
  /\ FacadeInit
  /\ pending = NoRoundTrip
  /\ sub \in Treaps(1, MaxKey, MaxPrio)
  /\ call = NoCall
  /\ result = Null
  /\ FirstFitInit

\* Node::Split(std::move(sub), key), as the node tests call it.
CallSplit(key) ==
  /\ call = NoCall
  /\ call' = [name |-> "Split", key |-> key, priority |-> 0,
               value |-> NoValue]
  /\ result' = Split(sub, key)
  /\ UNCHANGED <<facadeVars, pending, sub, ffVars>>

\* Node::Insert(std::move(sub), node) with a node fresh from the constructor.
CallInsert(priority, key, value) ==
  /\ call = NoCall
  /\ call' = [name |-> "Insert", key |-> key, priority |-> priority,
               value |-> value]
  /\ result' = NodeInsert(sub, ReducerNode(priority, key, value))
  /\ UNCHANGED <<facadeVars, pending, sub, ffVars>>

\* The subtrees b that Node::Merge(a, b) may be called with: every key of a
\* is smaller than every key of b.
RECURSIVE GreatestKey(_)
GreatestKey(a) == IF a.right.nil THEN a.key ELSE GreatestKey(a.right)

MergeableWith(a) ==
  Treaps(IF a.nil THEN 1 ELSE 1 + GreatestKey(a), MaxKey, MaxPrio)

\* Node::Merge(std::move(sub), std::move(b))
CallMerge(b) ==
  /\ call = NoCall
  /\ call' = [name |-> "Merge", key |-> 0, priority |-> 0, value |-> NoValue,
               b |-> b]
  /\ result' = [abort |-> FALSE, tree |-> Merge(sub, b)]
  /\ UNCHANGED <<facadeVars, pending, sub, ffVars>>

\* Node::Merge called on the pair that Node::Split has just returned.
CallMergeOfSplit ==
  /\ call.name = "Split"
  /\ ~result.abort
  /\ call' = [call EXCEPT !.name = "SplitMerge"]
  /\ result' = [abort |-> FALSE, tree |-> Merge(result.left, result.right)]
  /\ UNCHANGED <<facadeVars, pending, sub, ffVars>>

NodeNext ==
  \/ \E key \in QueryKeys : CallSplit(key)
  \/ \E priority \in Prios, key \in Keys, value \in Values :
        CallInsert(priority, key, value)
  \/ call = NoCall /\ \E b \in MergeableWith(sub) : CallMerge(b)
  \/ CallMergeOfSplit

SpecNode == NodeInit /\ [][NodeNext]_vars

\* ------------------------------------------------- the rotation draft
\* The earlier draft of the tree (src/README.md:360-602), whose Node::Insert
\* descends by key to a leaf and restores heap order by rotations.

\* What a moved-from key and value give when Node's constructor builds
\* _reduced from them: the constructor has moved key and value into _key
\* and _value before it initializes _reduced(key, value).  A trivially
\* copyable key is left as it was ("kept"); a std::string is left in an
\* unspecified state ("emptied").
MovedFrom == {"kept", "emptied"}

\* What the write through the null root in Insert's first branch does:
\* undefined behaviour, which stops the program ("crash") or goes unnoticed
\* ("skipped").
NullWrite == {"crash", "skipped"}

\* ReducerTree::Node::Node of the draft
RotationNode(priority, key, value, moved) ==
  [nil |-> FALSE, priority |-> priority, key |-> key, value |-> value,
   reduced |-> IF moved = "kept" THEN ReducerSeed(key, value)
               ELSE UndefinedReduced,
   left |-> Null, right |-> Null]

\* ReducerTree::Node::RotateRight.  abort = TRUE is a failed assertion.
RotateRight(old_root) ==
  IF old_root.left.nil \/ ~(old_root.priority < old_root.left.priority)
  THEN [abort |-> TRUE, tree |-> Null]
  ELSE LET old_L == old_root.left
           old_LR == old_L.right
       IN  [abort |-> FALSE,
            tree |-> SetRightAndUpdateReduced(
                       old_L, SetLeftAndUpdateReduced(old_root, old_LR))]

\* ReducerTree::Node::RotateLeft
RotateLeft(old_root) ==
  IF old_root.right.nil \/ ~(old_root.priority < old_root.right.priority)
  THEN [abort |-> TRUE, tree |-> Null]
  ELSE LET old_R == old_root.right
           old_RL == old_R.left
       IN  [abort |-> FALSE,
            tree |-> SetLeftAndUpdateReduced(
                       old_R, SetRightAndUpdateReduced(old_root, old_RL))]

\* ReducerTree::Node::SetLeft
SetLeft(old_root, new_left) ==
  LET linked == [old_root EXCEPT !.left = new_left]
  IN  IF linked.left.nil \/ linked.priority >= linked.left.priority
      THEN [abort |-> FALSE, tree |-> RecomputeReduced(linked)]
      ELSE RotateRight(linked)

\* ReducerTree::Node::SetRight
SetRight(old_root, new_right) ==
  LET linked == [old_root EXCEPT !.right = new_right]
  IN  IF linked.right.nil \/ linked.priority >= linked.right.priority
      THEN [abort |-> FALSE, tree |-> RecomputeReduced(linked)]
      ELSE RotateLeft(linked)

\* ReducerTree::Node::Insert of the draft.  inserted is the out-parameter;
\* abort = TRUE is a stopped program (a crash or a failed assertion).
RECURSIVE RotationInsert(_, _, _)
RotationInsert(rt, node, ub) ==
  IF rt.nil THEN
       \* inserted = true; root->_reduced = ...; return node;
       IF ub = "crash" THEN [abort |-> TRUE, inserted |-> TRUE, tree |-> Null]
       ELSE [abort |-> FALSE, inserted |-> TRUE, tree |-> node]
  ELSE IF node.key < rt.key THEN
       LET below == RotationInsert(rt.left, node, ub)
           set == SetLeft(rt, below.tree)
       IN  IF below.abort THEN below
           ELSE [abort |-> set.abort, inserted |-> below.inserted,
                 tree |-> set.tree]
  ELSE IF rt.key < node.key THEN
       LET below == RotationInsert(rt.right, node, ub)
           set == SetRight(rt, below.tree)
       IN  IF below.abort THEN below
           ELSE [abort |-> set.abort, inserted |-> below.inserted,
                 tree |-> set.tree]
  ELSE [abort |-> FALSE, inserted |-> FALSE, tree |-> rt]

\* Node::Insert(std::move(sub), std::make_unique<Node>(priority, key, value),
\* inserted), as ReducerTree::insert of the draft calls it.
CallRotationInsert(priority, key, value, moved, ub) ==
  /\ call = NoCall
  /\ call' = [name |-> "RotationInsert", key |-> key, priority |-> priority,
               value |-> value, moved |-> moved, ub |-> ub]
  /\ result' = RotationInsert(sub, RotationNode(priority, key, value, moved), ub)
  /\ UNCHANGED <<facadeVars, pending, sub, ffVars>>

RotationNext ==
  \E priority \in Prios, key \in Keys, value \in Values,
     moved \in MovedFrom, ub \in NullWrite :
        CallRotationInsert(priority, key, value, moved, ub)

SpecRotation == NodeInit /\ [][RotationNext]_vars

\* ------------------------------------------------- the first-fit allocator
\* FirstFit of fitness.cc, the std::set version (src/fitness.cc:8-85).

Max(a, b) == IF a >= b THEN a ELSE b

\* operator<(Block, Block).  abort = TRUE is the failed assertion that two
\* blocks with the same start have the same length.
BlockLess(a, b) ==
  [abort |-> a.start = b.start /\ a.length # b.length,
   lt |-> a.start < b.start]

\* std::set<Block>::insert.  To place block, or to find the element
\* equivalent to it, the set compares block with the elements on its search
\* path, the element with the same start among them if there is one.
SetInsert(blocks, block) ==
  [abort |-> \E e \in blocks :
                BlockLess(block, e).abort \/ BlockLess(e, block).abort,
   set |-> IF \E e \in blocks : ~BlockLess(block, e).lt /\ ~BlockLess(e, block).lt
           THEN blocks
           ELSE blocks \cup {block}]

\* std::set<Block>::find.  found = FALSE is end().
SetFind(blocks, block) ==
  LET same == {e \in blocks :
                 ~BlockLess(block, e).lt /\ ~BlockLess(e, block).lt}
  IN  [abort |-> \E e \in blocks :
                    BlockLess(block, e).abort \/ BlockLess(e, block).abort,
       found |-> same # {},
       it |-> IF same # {} THEN CHOOSE e \in same : TRUE ELSE NoBlock]

\* The first element of a non-empty std::set<Block> in iteration order, and
\* the last one.
FirstBlock(blocks) == CHOOSE b \in blocks : \A c \in blocks : b.start <= c.start
LastBlock(blocks) == CHOOSE b \in blocks : \A c \in blocks : c.start <= b.start

\* The loop of FirstFit::Alloc that forgets the length of the blocks it
\* passes: prev_end = block._start.
RECURSIVE AllocScanForgettingLength(_, _, _)
AllocScanForgettingLength(remaining, prev_end, size_) ==
  IF remaining = {} THEN [abort |-> FALSE, found |-> FALSE, block |-> NoBlock]
  ELSE LET block == FirstBlock(remaining)
       IN  IF ~(block.start >= prev_end)
           THEN [abort |-> TRUE, found |-> FALSE, block |-> NoBlock]
           ELSE IF block.start - prev_end >= size_
           THEN [abort |-> FALSE, found |-> TRUE,
                 block |-> Block(prev_end, size_)]
           ELSE AllocScanForgettingLength(remaining \ {block}, block.start,
                                          size_)

\* The loop of FirstFit::Alloc that takes no gap.
AllocScanTakingNoGap(remaining, prev_end, size_) ==
  [abort |-> FALSE, found |-> FALSE, block |-> NoBlock]

\* The loop of FirstFit::Alloc over the blocks still to visit, in ascending
\* order.  abort = TRUE is the failed assertion block._start >= prev_end;
\* found = TRUE is the return from inside the loop.
RECURSIVE AllocScan(_, _, _)
AllocScan(remaining, prev_end, size_) ==
  IF remaining = {} THEN [abort |-> FALSE, found |-> FALSE, block |-> NoBlock]
  ELSE LET block == FirstBlock(remaining)
       IN  IF ~(block.start >= prev_end)
           THEN [abort |-> TRUE, found |-> FALSE, block |-> NoBlock]
           ELSE IF block.start - prev_end >= size_
           THEN [abort |-> FALSE, found |-> TRUE,
                 block |-> Block(prev_end, size_)]
           ELSE AllocScan(remaining \ {block}, block.start + block.length,
                          size_)

FirstFitCall(name, size_, block) ==
  [name |-> name, size |-> size_, block |-> block, pre |-> allocated,
   preHigh |-> high_water,
   \* an Alloc that directly follows a Free, of no more than the length
   \* of the block that Free was called with
   refill |-> /\ name = "Alloc" /\ ffop.name = "Free"
              /\ size_ <= ffop.block.length]

\* FirstFit::Alloc that adds size to _high_water on every call.
AllocAlwaysRaising(size_) ==
  /\ ~ffAsserted
  /\ Cardinality(allocated) < MaxBlocks
  /\ LET scan == AllocScan(allocated, 0, size_)
         end == IF allocated # {}
                THEN LastBlock(allocated).start + LastBlock(allocated).length
                ELSE 0
         block == IF scan.found THEN scan.block ELSE Block(end, size_)
         ins == SetInsert(allocated, block)
     IN  /\ ffop' = FirstFitCall("Alloc", size_, block)
         /\ ffAsserted' = FALSE
         /\ allocated' = ins.set
         /\ high_water' = high_water + size_
         /\ maxEnd' = Max(maxEnd, block.start + block.length)

\* FirstFit::Alloc
Alloc(size_) ==
  /\ ~ffAsserted
  /\ Cardinality(allocated) < MaxBlocks
  /\ LET scan == AllocScan(allocated, 0, size_)
         end == IF allocated # {}
                THEN LastBlock(allocated).start + LastBlock(allocated).length
                ELSE 0
         block == IF scan.found THEN scan.block ELSE Block(end, size_)
         ins == SetInsert(allocated, block)
     IN  /\ ffop' = FirstFitCall("Alloc", size_, block)
         /\ IF scan.abort \/ ins.abort
            THEN /\ ffAsserted' = TRUE
                 /\ UNCHANGED <<allocated, high_water, maxEnd>>
            ELSE /\ ffAsserted' = FALSE
                 /\ allocated' = ins.set
                 /\ high_water' = IF scan.found THEN high_water
                                  ELSE Max(high_water, end + size_)
                 /\ maxEnd' = Max(maxEnd, block.start + block.length)

\* FirstFit::Free
Free(block) ==
  /\ ~ffAsserted
  /\ LET f == SetFind(allocated, block)
     IN  /\ ffop' = FirstFitCall("Free", 0, block)
         /\ IF \/ f.abort
               \/ ~f.found
               \/ f.it.start # block.start
               \/ f.it.length # block.length
            THEN /\ ffAsserted' = TRUE
                 /\ UNCHANGED allocated
            ELSE /\ ffAsserted' = FALSE
                 /\ allocated' = allocated \ {f.it}
  /\ UNCHANGED <<high_water, maxEnd>>

get_high_water == high_water

\* Alloc with a size of at least 1, and Free of a block that is allocated.
FirstFitNext ==
  \/ \E size_ \in 1..MaxSize :
        Alloc(size_) /\ UNCHANGED <<facadeVars, pending, nodeVars>>
  \/ \E block \in allocated :
        Free(block) /\ UNCHANGED <<facadeVars, pending, nodeVars>>

SpecFirstFit == Init /\ [][FirstFitNext]_vars

\* The same with the size 0 allowed.
FirstFitZeroNext ==
  \/ \E size_ \in 0..MaxSize :
        Alloc(size_) /\ UNCHANGED <<facadeVars, pending, nodeVars>>
  \/ \E block \in allocated :
        Free(block) /\ UNCHANGED <<facadeVars, pending, nodeVars>>

SpecFirstFitZero == Init /\ [][FirstFitZeroNext]_vars

\* ------------------------------------------------------------ properties
\* The definitions that follow describe a subtree from its shape alone and
\* use none of the operations above.
RECURSIVE NodesOf(_)
RECURSIVE KeysOf(_)
RECURSIVE NodeCount(_)
RECURSIVE InOrder(_)

\* The nodes of a subtree, each as the subtree it roots.
NodesOf(t) ==
  IF t.nil THEN {} ELSE {t} \cup NodesOf(t.left) \cup NodesOf(t.right)

KeysOf(t) ==
  IF t.nil THEN {} ELSE {t.key} \cup KeysOf(t.left) \cup KeysOf(t.right)

NodeCount(t) ==
  IF t.nil THEN 0 ELSE 1 + NodeCount(t.left) + NodeCount(t.right)

\* The entries <<key, value, priority>> of a subtree, left to right.
InOrder(t) ==
  IF t.nil THEN << >>
  ELSE InOrder(t.left) \o << <<t.key, t.value, t.priority>> >> \o InOrder(t.right)

EntriesOf(t) == {InOrder(t)[i] : i \in DOMAIN InOrder(t)}

Children(n) == {c \in {n.left, n.right} : ~c.nil}

\* fold(subtree): the cached value of its root, the default for null.
CachedFold(t) == IF t.nil THEN << >> ELSE t.reduced

Mutated == op.name \in {"Insert", "Erase"}

\* C1: after any sequence of Insert and Erase calls the tree is in BST
\* order: at every node the keys of the left subtree are smaller than the
\* node's key, those of the right subtree are greater, and no key occurs
\* twice.
C1_BSTOrder ==
  /\ \A n \in NodesOf(root) :
        /\ \A k \in KeysOf(n.left) : k < n.key
        /\ \A k \in KeysOf(n.right) : k > n.key
  /\ Cardinality(KeysOf(root)) = NodeCount(root)

\* An Insert has just made a node the root of a tree of three nodes by
\* splitting the old tree around its key.
C1_Witness ==
  /\ op.name = "Insert" /\ ret = TRUE
  /\ NodeCount(root) = 3
  /\ root.key = op.key /\ ~root.left.nil /\ ~root.right.nil

\* C2: after any sequence of Insert and Erase calls, whatever priorities
\* were drawn, no child has a higher priority than its parent.
C2_HeapOrder ==
  \A n \in NodesOf(root) : \A c \in Children(n) : n.priority >= c.priority

\* An Erase has just removed a root with two children, merging them, and
\* the merged tree has a child whose priority equals its parent's.
C2_Witness ==
  /\ op.name = "Erase" /\ ret = TRUE
  /\ ~pre.root.nil /\ pre.root.key = op.key
  /\ ~pre.root.left.nil /\ ~pre.root.right.nil
  /\ \E n \in NodesOf(root) : \E c \in Children(n) : n.priority = c.priority

\* C3: after any sequence of Insert and Erase calls every node's cached
\* reduced value is fold(left) + R(key, value) + fold(right), combined in
\* that order, for the concatenation reducer (which is not commutative).
C3_CachedFoldConsistent ==
  \A n \in NodesOf(root) :
     n.reduced = CachedFold(n.left) \o << <<n.key, n.value>> >> \o CachedFold(n.right)

\* A mutation has left a node with two children, so that the order of the
\* three operands shows in its reduced value.
C3_Witness ==
  /\ Mutated /\ ret = TRUE
  /\ \E n \in NodesOf(root) : ~n.left.nil /\ ~n.right.nil /\ Len(n.reduced) = 3

\* C4: after any sequence of Insert and Erase calls Size() is the number of
\* nodes reachable from the root, which is the count Node::Validate returns
\* (0 for a null root), and Empty() holds exactly when the root is null.
C4_SizeConsistent ==
  /\ Size = NodeCount(root)
  /\ Size = (IF root.nil THEN 0 ELSE NodeValidate(root, {}, {}).size)
  /\ Empty <=> root.nil

\* An Erase has just taken a tree of three nodes down to two.
C4_Witness ==
  /\ op.name = "Erase" /\ ret = TRUE
  /\ pre.size = 3 /\ Size = 2 /\ ~Empty /\ ~root.nil

\* The entries of the std::map, in ascending key order, as <<key, value>>.
RECURSIVE ExpectBelow(_)
ExpectBelow(q) ==
  IF q <= 1 THEN << >>
  ELSE ExpectBelow(q - 1) \o
       (IF expect[q - 1] = NoValue THEN << >>
        ELSE << <<q - 1, expect[q - 1]>> >>)

ExpectAll == ExpectBelow(MaxKey + 1)

\* C5: the tree is an ordered map.  For every key k, Find(k) gives a result
\* iff more Insert(k, _) calls than Erase(k) calls have returned true, the
\* result holds k and the value of the most recent Insert(k, v) that returned
\* true, and this is the content of a std::map driven by the same calls.
C5_FindIsOrderedMap ==
  /\ \A k \in Keys :
        LET f == NodeFind(root, k)
        IN  /\ f.found <=> balance[k] > 0
            /\ f.found <=> expect[k] # NoValue
            /\ f.found => /\ f.key = k
                          /\ f.value = inserted[k]
                          /\ f.value = expect[k]
  /\ op.name = "Find" =>
        /\ ret.found <=> balance[op.key] > 0
        /\ ret.found => ret.key = op.key /\ ret.value = inserted[op.key]

\* Find has just found a key below the root of a tree of three nodes, and
\* another key of the tree is held with the other value.
C5_Witness ==
  /\ op.name = "Find" /\ ret.found
  /\ Size = 3 /\ root.key # op.key
  /\ \E k \in Keys : expect[k] \notin {NoValue, ret.value}

\* C6: Insert(k, v) returns true iff k is not in the tree when it is called;
\* when k is present it returns false and the tree is the same in every
\* respect: nodes, shape, values, priorities, reduced values and Size().
C6_InsertPresentIsNoOp ==
  (op.name = "Insert" /\ ~asserted) =>
     /\ ret = TRUE <=> op.key \notin KeysOf(pre.root)
     /\ op.key \in KeysOf(pre.root) =>
           /\ ret = FALSE
           /\ root = pre.root
           /\ Size = pre.size

\* Insert has just been refused for a key held with another value than the
\* one passed, in a tree of three nodes.
C6_Witness ==
  /\ op.name = "Insert" /\ ret = FALSE
  /\ Size = 3
  /\ expect[op.key] # op.value

\* C7: for every reachable tree and every query key q, PrefixLt(q) is the
\* fold, in ascending key order, of R(k, v) over the entries with k < q (the
\* default when there are none), the entry of q itself left out.  The right
\* side is computed from the std::map, which knows neither the shape of the
\* tree nor the priorities.
C7_PrefixLtIsFoldBelow ==
  /\ \A q \in QueryKeys : NodePrefixLt(root, q) = ExpectBelow(q)
  /\ op.name = "PrefixLt" => ret = ExpectBelow(op.key)

\* PrefixLt has just been asked for the greatest key of the tree, which is
\* not the root, and the tree has three nodes.
C7_Witness ==
  /\ op.name = "PrefixLt"
  /\ op.key \in KeysOf(root)
  /\ Len(ret) = 2 /\ Size = 3
  /\ ~root.left.nil /\ ~root.right.nil

\* C8: ForAll with a functor that always returns true calls it once for each
\* entry and for no other key, in strictly ascending key order, with the
\* entry's stored value, and returns true.
C8_ForAllVisitsInOrder ==
  (op.name = "ForAll" /\ op.fset = {}) =>
     /\ ret.result = TRUE
     /\ [i \in DOMAIN ret.calls |-> <<ret.calls[i][1], ret.calls[i][2]>>]
           = ExpectAll
     /\ \A i, j \in DOMAIN ret.calls :
           i < j => ret.calls[i][1] < ret.calls[j][1]

\* ForAll has just walked a tree of three nodes whose root has a left child.
C8_Witness ==
  /\ op.name = "ForAll" /\ op.fset = {}
  /\ Len(ret.calls) = 3
  /\ ~root.left.nil

\* C9: Erase(k) with k present returns true, takes one off Size(), removes
\* the entry of k and leaves every other entry in the tree with its key,
\* value and priority.
C9_ErasePresent ==
  (op.name = "Erase" /\ op.key \in KeysOf(pre.root)) =>
     /\ ret = TRUE
     /\ Size = pre.size - 1
     /\ InOrder(root) =
           SelectSeq(InOrder(pre.root), LAMBDA e : e[1] # op.key)
     /\ Len(InOrder(root)) = Len(InOrder(pre.root)) - 1

\* Erase has just removed, from a tree of three nodes, a node that was not
\* the root and had a child.
C9_Witness ==
  /\ op.name = "Erase" /\ ret = TRUE
  /\ pre.size = 3
  /\ \E n \in NodesOf(pre.root) :
        n.key = op.key /\ n # pre.root /\ Children(n) # {}

\* C10: Erase(k) with k absent returns false and the tree is the same in
\* every respect.  So after any Erase(k), a second Erase(k) returns false
\* and gives the same tree.
C10_EraseAbsentIsNoOp ==
  op.name = "Erase" =>
     /\ op.key \notin KeysOf(pre.root) =>
           /\ ret = FALSE
           /\ root = pre.root
           /\ Size = pre.size
     /\ NodeErase(root, op.key) = [tree |-> root, erased |-> FALSE]

\* Erase has just looked for an absent key down a path of two nodes.
C10_Witness ==
  /\ op.name = "Erase" /\ ret = FALSE
  /\ Size = 2
  /\ root.key < op.key /\ ~root.right.nil /\ root.right.key < op.key

\* C11: starting from an empty tree, once every key of a set S has been
\* inserted (in any order, with any priorities) and then every key of S has
\* been erased (in any order), the root is null, Size() is 0 and Empty() holds.
C11_RoundTripEmpties ==
  (pending.ins = {} /\ pending.era = {}) =>
     /\ root = Null
     /\ Size = 0
     /\ Empty

\* The last Erase of a round trip over all the keys has just returned; the
\* key it erased is neither the smallest nor the greatest.
C11_Witness ==
  /\ pending.S = Keys /\ pending.ins = {} /\ pending.era = {}
  /\ op.name = "Erase" /\ ret = TRUE
  /\ pre.size = 1 /\ 1 < op.key /\ op.key < MaxKey

\* C12: ForAll short-circuits.  If the functor returns false at an entry,
\* it has been called on exactly the entries with smaller keys and on that
\* entry, in ascending order, that call is the last one, and ForAll returns
\* false.  ForAll returns true iff every call returned true, and on an empty
\* tree it returns true without a call.  The entries are those of the
\* std::map.
C12_ForAllShortCircuits ==
  op.name = "ForAll" =>
     LET hit == {k \in op.fset : expect[k] # NoValue}
         first == CHOOSE k \in hit : \A j \in hit : k <= j
         refused == {i \in DOMAIN ret.calls : ret.calls[i][1] \in op.fset}
     IN  /\ [i \in DOMAIN ret.calls |-> <<ret.calls[i][1], ret.calls[i][2]>>]
               = IF hit = {} THEN ExpectAll ELSE ExpectBelow(first + 1)
         /\ refused \subseteq {Len(ret.calls)}
         /\ ret.result = (refused = {})
         /\ hit # {} => ret.result = FALSE
         /\ root.nil => ret = [result |-> TRUE, calls |-> << >>]

\* ForAll has just stopped at the middle entry of a tree of three nodes whose
\* root is not that entry: one call on the smaller entry, one on the entry
\* refused, none on the greater entry.
C12_Witness ==
  /\ op.name = "ForAll" /\ Size = 3
  /\ ret.result = FALSE /\ Len(ret.calls) = 2
  /\ ret.calls[2][1] \in op.fset /\ ret.calls[2][1] # root.key

\* BST order, heap order and cached fold consistency of a subtree, from its
\* shape alone.
IsBST(t) ==
  /\ \A n \in NodesOf(t) :
        /\ \A k \in KeysOf(n.left) : k < n.key
        /\ \A k \in KeysOf(n.right) : k > n.key
  /\ Cardinality(KeysOf(t)) = NodeCount(t)

IsHeap(t) ==
  \A n \in NodesOf(t) : \A c \in Children(n) : n.priority >= c.priority

IsFoldConsistent(t) ==
  \A n \in NodesOf(t) :
     n.reduced = CachedFold(n.left) \o << <<n.key, n.value>> >> \o CachedFold(n.right)

IsTreap(t) == IsBST(t) /\ IsHeap(t) /\ IsFoldConsistent(t)

\* The entries of t, left to right, with a key below (above) k.
EntriesBelow(t, k) == SelectSeq(InOrder(t), LAMBDA e : e[1] < k)
EntriesAbove(t, k) == SelectSeq(InOrder(t), LAMBDA e : e[1] > k)

\* C13: for every subtree t in BST order, heap order and fold consistency
\* and every key k not in t, Node::Split(t, k) returns (l, r) where l holds
\* exactly the entries of t with key < k and r exactly those with key > k,
\* none lost or duplicated (two empty trees for the empty tree), and l and r
\* are each in BST order, heap order and fold consistency at every node.
C13_SplitPartitions ==
  (call.name = "Split" /\ IsTreap(sub) /\ call.key \notin KeysOf(sub)) =>
     /\ ~result.abort
     /\ InOrder(result.left) = EntriesBelow(sub, call.key)
     /\ InOrder(result.right) = EntriesAbove(sub, call.key)
     /\ NodeCount(result.left) + NodeCount(result.right) = NodeCount(sub)
     /\ IsTreap(result.left) /\ IsTreap(result.right)
     /\ sub.nil => result.left.nil /\ result.right.nil

\* Split has just cut a tree of two nodes between its keys: the root went
\* right without its left child, its reduced value recomputed, and the
\* child went left.
C13_Witness ==
  /\ call.name = "Split" /\ IsTreap(sub) /\ NodeCount(sub) = 2
  /\ call.key \notin KeysOf(sub)
  /\ ~sub.left.nil /\ sub.left.key < call.key /\ call.key < sub.key
  /\ ~result.abort
  /\ result.left.key = sub.left.key
  /\ result.right.key = sub.key /\ result.right.left.nil
  /\ result.right.reduced # sub.reduced

\* The node of t holding key k (k is in t).
NodeAt(t, k) == CHOOSE n \in NodesOf(t) : n.key = k

\* C14: what is read through the third component of the result of Find(k),
\* k present, is the cached reduced value of the node holding k, which is
\* the in-order fold of the entries of the subtree rooted at that node.
\* This fails: the component refers to a copy that is gone when Find returns.
C14_FindGivesNodeReduced ==
  (op.name = "Find" /\ ret.found) =>
     /\ ret.reduced = NodeAt(root, op.key).reduced
     /\ ret.reduced =
           [i \in DOMAIN InOrder(NodeAt(root, op.key)) |->
              <<InOrder(NodeAt(root, op.key))[i][1],
                InOrder(NodeAt(root, op.key))[i][2]>>]

\* C15: a node's key, value and priority do not change between the Insert
\* that installs it and the Erase that removes it, whatever calls are made
\* in between; only its child links and its reduced value may change.  Every
\* call keeps every entry <<key, value, priority>> the tree held when it was
\* made, except a successful Erase of that key; a successful Insert installs
\* the entry it was called with; and the value held for a key is the one
\* its latest successful Insert was called with.
C15_InstalledFieldsFrozen ==
  /\ \A e \in EntriesOf(pre.root) :
        \/ e \in EntriesOf(root)
        \/ op.name = "Erase" /\ op.key = e[1] /\ ret = TRUE
  /\ (op.name = "Insert" /\ ~asserted /\ ret = TRUE) =>
        <<op.key, op.value, op.priority>> \in EntriesOf(root)
  /\ \A e \in EntriesOf(root) : e[2] = inserted[e[1]]

\* An Insert has just put its node above a tree of two nodes; a node of the
\* old tree has lost a child and has another reduced value, while Insert was
\* called with another value than the one that node holds.
C15_Witness ==
  /\ op.name = "Insert" /\ ret = TRUE /\ pre.size = 2
  /\ root.key = op.key
  /\ \E n \in NodesOf(pre.root) : \E m \in NodesOf(root) :
        /\ n.key = m.key /\ n.value = m.value /\ n.priority = m.priority
        /\ n.value # op.value
        /\ n.reduced # m.reduced
        /\ Children(n) # {} /\ Children(m) = {}

\* C16: a precondition violation ends in a failed assertion and returns no
\* tree.  Node::Split(t, k) with k in t and Node::Insert(t, n) with n.key in
\* t reach assert(false) for every tree t and every priority of n, lower
\* than, equal to or higher than the priorities on the search path; a tree
\* that is returned holds no key twice.
C16_DuplicateKeyAsserts ==
  /\ (call.name = "Split" /\ call.key \in KeysOf(sub)) => result.abort
  /\ (call.name = "Insert" /\ call.key \in KeysOf(sub)) => result.abort
  /\ (call.name = "Split" /\ ~result.abort) =>
        /\ call.key \notin KeysOf(result.left) \cup KeysOf(result.right)
        /\ Cardinality(KeysOf(result.left) \cup KeysOf(result.right))
              = NodeCount(result.left) + NodeCount(result.right)
  /\ (call.name = "Insert" /\ ~result.abort) =>
        Cardinality(KeysOf(result.tree)) = NodeCount(result.tree)

\* Insert has just been called with a key held below the root and a
\* priority higher than the root's: it went to Split at once, and Split
\* reached the assertion below the root.
C16_Witness ==
  /\ call.name = "Insert" /\ result.abort
  /\ call.key \in KeysOf(sub) /\ call.key # sub.key
  /\ call.priority > sub.priority

\* C17: no sequence of calls to Insert, Erase, Find, PrefixLt, ForAll and
\* Validate, whatever the keys and the priorities drawn, makes an assertion
\* fail.  Node::Insert is called for absent keys only, so neither it nor
\* Node::Split reaches assert(false), for any priority that may be drawn
\* next; and every assertion of Validate holds.
C17_NoAssertionFails ==
  /\ ~asserted
  /\ op.name = "Validate" => ret = TRUE
  /\ root.nil \/ NodeValidate(root, {}, {}) = [ok |-> TRUE, size |-> size]
  /\ \A key \in Keys \ KeysOf(root) : \A priority \in Prios :
        ~NodeInsert(root, ReducerNode(priority, key, "a")).abort
  /\ (op.name = "Insert" /\ ret = FALSE) => op.key \in KeysOf(pre.root)

\* Validate has just returned on a tree of three nodes whose root has two
\* children, one of them with the root's priority.
C17_Witness ==
  /\ op.name = "Validate" /\ ret = TRUE /\ ~asserted
  /\ Size = 3 /\ ~root.left.nil /\ ~root.right.nil
  /\ root.left.priority = root.priority

\* C18: Find, PrefixLt, ForAll and Validate do not change the tree: when
\* one of them returns, the root, every node's key, value, priority,
\* children and reduced value, and Size() are what they were at the call.
C18_ReadsDoNotMutate ==
  op.name \in {"Find", "PrefixLt", "ForAll", "Validate"} =>
     /\ root = pre.root
     /\ Size = pre.size
     /\ InOrder(root) = InOrder(pre.root)

\* PrefixLt has just returned the fold of the two entries of a tree for a
\* key that is not in it.
C18_Witness ==
  /\ op.name = "PrefixLt" /\ op.key \notin KeysOf(root)
  /\ Len(ret) = 2 /\ Size = 2 /\ ~root.nil /\ root = pre.root

\* Node::Insert is called on a non-null subtree with an absent key and the
\* priority of the subtree's root.
InsertOnTie ==
  /\ call.name = "Insert"
  /\ ~sub.nil /\ call.priority = sub.priority
  /\ call.key \notin KeysOf(sub)

\* C20, as stated: on a tie the existing root stays the root of the returned
\* subtree and the new node is inserted below it.
C20_TieKeepsRoot ==
  InsertOnTie =>
     /\ ~result.abort
     /\ result.tree.key = sub.key
     /\ call.key \in KeysOf(result.tree.left) \cup KeysOf(result.tree.right)

\* C20, as the code has it: on a tie the new node becomes the root of the
\* returned subtree (the split branch is taken), with the entries of the old
\* subtree below the key to its left and those above the key to its right,
\* the old root among them.
C20_TieMakesNodeRoot ==
  InsertOnTie =>
     /\ ~result.abort
     /\ result.tree.key = call.key
     /\ result.tree.value = call.value
     /\ result.tree.priority = call.priority
     /\ result.tree.left = Split(sub, call.key).left
     /\ result.tree.right = Split(sub, call.key).right
     /\ InOrder(result.tree.left) = EntriesBelow(sub, call.key)
     /\ InOrder(result.tree.right) = EntriesAbove(sub, call.key)
     /\ sub.key \in KeysOf(result.tree.left) \cup KeysOf(result.tree.right)
     /\ IsTreap(result.tree)

\* Insert has just been called on a tree of two nodes with the root's
\* priority and a key between the two keys: the new node is the root, with
\* one of the two old nodes on each side.
C20_Witness ==
  /\ InsertOnTie /\ NodeCount(sub) = 2
  /\ ~result.abort
  /\ result.tree.key = call.key
  /\ ~result.tree.left.nil /\ ~result.tree.right.nil

\* The <<key, value>> pairs of the entries of t, left to right: what the
\* concatenation reducer folds them to.
Pairs(entries) == [i \in DOMAIN entries |-> <<entries[i][1], entries[i][2]>>]
FoldOf(t) == Pairs(InOrder(t))

\* The entry Node::Insert was called with.
CallEntry == <<call.key, call.value, call.priority>>

\* C21: Node::Insert(root, node) with node.priority strictly less than
\* root.priority and node.key absent returns root as the root; the child
\* subtree on the side opposite to node.key is untouched; node is inserted
\* into the child on node.key's side (left if smaller, right if greater);
\* and root.reduced is recomputed.
C21_LowerPriorityDescends ==
  (/\ call.name = "Insert" /\ ~sub.nil
   /\ call.priority < sub.priority /\ call.key \notin KeysOf(sub)) =>
     /\ ~result.abort
     /\ result.tree.key = sub.key
     /\ result.tree.value = sub.value
     /\ result.tree.priority = sub.priority
     /\ call.key < sub.key =>
           /\ result.tree.right = sub.right
           /\ EntriesOf(result.tree.left) = EntriesOf(sub.left) \cup {CallEntry}
           /\ NodeCount(result.tree.left) = NodeCount(sub.left) + 1
           /\ IsTreap(result.tree.left)
     /\ call.key > sub.key =>
           /\ result.tree.left = sub.left
           /\ EntriesOf(result.tree.right) = EntriesOf(sub.right) \cup {CallEntry}
           /\ NodeCount(result.tree.right) = NodeCount(sub.right) + 1
           /\ IsTreap(result.tree.right)
     /\ result.tree.reduced = FoldOf(result.tree)
     /\ result.tree.reduced # sub.reduced

\* As in NodeTestInsert: the root a has no left child and a right child b,
\* and c, greater than b and of lower priority than both, has just been
\* inserted: a is still the root, its left is null, its right is b, and c
\* is under b.
C21_Witness ==
  /\ call.name = "Insert" /\ NodeCount(sub) = 2
  /\ sub.left.nil /\ ~sub.right.nil
  /\ call.priority < sub.right.priority /\ call.key > sub.right.key
  /\ ~result.abort
  /\ result.tree.key = sub.key /\ result.tree.left.nil
  /\ result.tree.right.key = sub.right.key
  /\ result.tree.right.right.key = call.key

\* C22: Node::Insert(root, node) with node.priority strictly greater than
\* root.priority and node.key absent from a valid subtree returns node as
\* the root; its left subtree holds exactly the entries of root with a
\* smaller key and its right subtree exactly those with a greater key; and
\* node.reduced is the in-order fold of all these entries and node's own.
C22_HigherPriorityBecomesRoot ==
  (/\ call.name = "Insert" /\ ~sub.nil /\ IsTreap(sub)
   /\ call.priority > sub.priority /\ call.key \notin KeysOf(sub)) =>
     /\ ~result.abort
     /\ <<result.tree.key, result.tree.value, result.tree.priority>> = CallEntry
     /\ InOrder(result.tree.left) = EntriesBelow(sub, call.key)
     /\ InOrder(result.tree.right) = EntriesAbove(sub, call.key)
     /\ result.tree.reduced =
           Pairs(EntriesBelow(sub, call.key) \o <<CallEntry>> \o
                 EntriesAbove(sub, call.key))
     /\ IsTreap(result.tree)

\* Insert has just put a node of higher priority, with a key between the
\* two keys of a tree of two nodes, above that tree: one old node on each
\* side of it.
C22_Witness ==
  /\ call.name = "Insert" /\ NodeCount(sub) = 2 /\ IsTreap(sub)
  /\ call.priority > sub.priority /\ call.key \notin KeysOf(sub)
  /\ ~result.abort
  /\ NodeCount(result.tree.left) = 1 /\ NodeCount(result.tree.right) = 1
  /\ Len(result.tree.reduced) = 3

\* C23: for all subtrees a and b in BST order, heap order and fold
\* consistency with every key of a smaller than every key of b (either may
\* be empty), Node::Merge(a, b) returns a tree holding exactly the entries
\* of a and b, rooted at the root of a when a's root has the strictly
\* higher priority and at the root of b otherwise, and in BST order, heap
\* order (>=) and fold consistency at every node.
C23_MergeJoins ==
  (call.name = "Merge" /\ IsTreap(sub) /\ IsTreap(call.b)) =>
     /\ InOrder(result.tree) = InOrder(sub) \o InOrder(call.b)
     /\ sub.nil => result.tree = call.b
     /\ call.b.nil => result.tree = sub
     /\ (~sub.nil /\ ~call.b.nil) =>
           <<result.tree.key, result.tree.value, result.tree.priority>> =
              IF sub.priority > call.b.priority
              THEN <<sub.key, sub.value, sub.priority>>
              ELSE <<call.b.key, call.b.value, call.b.priority>>
     /\ IsTreap(result.tree)

\* Merge has just joined a tree of two nodes and a single node of the same
\* priority as the root of the first: the single node is the root.
C23_Witness ==
  /\ call.name = "Merge" /\ NodeCount(sub) = 2 /\ NodeCount(call.b) = 1
  /\ sub.priority = call.b.priority
  /\ result.tree.key = call.b.key
  /\ result.tree.left = sub /\ Len(result.tree.reduced) = 3

\* The priorities of the nodes of t are pairwise distinct.
DistinctPriorities(t) ==
  Cardinality({e[3] : e \in EntriesOf(t)}) = NodeCount(t)

\* C24, as stated: for every valid treap t, equal priorities allowed, and
\* every key k not in t, Merge applied to the pair Split(t, k) returns gives
\* back t: same entries, same shape, same reduced values.
C24_MergeInvertsSplit ==
  (call.name = "SplitMerge" /\ IsTreap(sub)) => result.tree = sub

\* C24, as the code has it: Merge applied to the pair that Split(t, k)
\* returns gives a valid treap with the entries of t in the same order, and
\* gives back t itself (shape and reduced values) when the priorities in t
\* are pairwise distinct.
C24_MergeOfSplitRestoresEntries ==
  (call.name = "SplitMerge" /\ IsTreap(sub)) =>
     /\ InOrder(result.tree) = InOrder(sub)
     /\ IsTreap(result.tree)
     /\ DistinctPriorities(sub) => result.tree = sub

\* A tree of two nodes with distinct priorities has just been split between
\* its keys and merged again, giving the same tree.
C24_Witness ==
  /\ call.name = "SplitMerge" /\ NodeCount(sub) = 2
  /\ DistinctPriorities(sub)
  /\ \E k \in KeysOf(sub) : k < call.key
  /\ \E k \in KeysOf(sub) : k > call.key
  /\ result.tree = sub

\* The one tree in BST order and heap order over a set of entries with
\* pairwise distinct keys and pairwise distinct priorities: the entry of
\* highest priority at the root, the entries of smaller keys to its left,
\* those of greater keys to its right, each node's reduced value the fold
\* of its subtree.
RECURSIVE Canonical(_)
Canonical(E) ==
  IF E = {} THEN Null
  ELSE LET top == CHOOSE e \in E : \A f \in E : f[3] <= e[3]
           l == Canonical({f \in E : f[1] < top[1]})
           r == Canonical({f \in E : f[1] > top[1]})
       IN  [nil |-> FALSE, priority |-> top[3], key |-> top[1],
            value |-> top[2],
            reduced |-> CachedFold(l) \o << <<top[1], top[2]>> >> \o CachedFold(r),
            left |-> l, right |-> r]

\* C25: history independence.  When the priorities drawn are pairwise
\* distinct, the tree after any sequence of Insert and Erase calls is a
\* function of the set of entries it holds, priorities included, whatever
\* the order of the calls: same root, same children at every node, same
\* reduced values.
C25_HistoryIndependent ==
  /\ DistinctPriorities(root)
  /\ root = Canonical(EntriesOf(root))

\* An Erase has just removed the root of a tree of three nodes, whose two
\* children were merged into a tree of two nodes.
C25_Witness ==
  /\ op.name = "Erase" /\ ret = TRUE
  /\ pre.size = 3 /\ pre.root.key = op.key
  /\ ~pre.root.left.nil /\ ~pre.root.right.nil
  /\ Size = 2 /\ root = Canonical(EntriesOf(root))

\* C26: the rotation draft's Node::Insert meets the same specification.
\* Inserting a node with an absent key into a valid subtree, the empty one
\* included, sets inserted to true and returns a subtree that holds the old
\* entries and the new one and is in BST order, heap order and fold
\* consistency; inserting a present key sets inserted to false and leaves
\* the subtree as it was.  This fails: the branch for a null root writes
\* through the null root, and the new node's reduced value is built from a
\* key and a value already moved from.
C26_RotationInsertCorrect ==
  (call.name = "RotationInsert" /\ IsTreap(sub)) =>
     /\ ~result.abort
     /\ IF call.key \in KeysOf(sub)
        THEN /\ result.inserted = FALSE
             /\ result.tree = sub
        ELSE /\ result.inserted = TRUE
             /\ EntriesOf(result.tree) = EntriesOf(sub) \cup {CallEntry}
             /\ NodeCount(result.tree) = NodeCount(sub) + 1
             /\ IsTreap(result.tree)

\* The end address of a block, and whether two address ranges are disjoint.
EndOf(b) == b.start + b.length
Disjoint(a, b) == EndOf(a) <= b.start \/ EndOf(b) <= a.start

\* C27: after any sequence of Alloc(size), size >= 1, and Free of allocated
\* blocks, the allocated blocks are pairwise disjoint address ranges
\* [start, start + length), and the assertion block._start >= prev_end of
\* Alloc has not failed and does not fail in the next Alloc, whatever its
\* size.
C27_BlocksDisjoint ==
  /\ \A a, b \in allocated : a # b => Disjoint(a, b)
  /\ \A b \in allocated : b.length >= 1
  /\ ~ffAsserted
  /\ \A size_ \in 1..MaxSize : ~AllocScan(allocated, 0, size_).abort

\* Alloc has just put a block into the gap between two allocated blocks,
\* filling it.
C27_Witness ==
  /\ ffop.name = "Alloc" /\ Cardinality(allocated) = 3
  /\ \E a, b \in ffop.pre :
        EndOf(a) = ffop.block.start /\ EndOf(ffop.block) = b.start

\* The range [s, s + n) overlaps no block of the set.
Fits(blocks, s, n) == \A e \in blocks : Disjoint(Block(s, n), e)

\* C28: Alloc(size), size >= 1, returns the block [s, s + size) with the
\* smallest start s >= 0 whose range overlaps no allocated block, and adds
\* exactly that block to the allocated set; Free(b) of an allocated block
\* removes exactly b.
C28_FirstFitPolicy ==
  /\ ffop.name = "Alloc" =>
        /\ ffop.block.length = ffop.size
        /\ Fits(ffop.pre, ffop.block.start, ffop.size)
        /\ \A s \in 0..(ffop.block.start - 1) : ~Fits(ffop.pre, s, ffop.size)
        /\ ffop.block \notin ffop.pre
        /\ allocated = ffop.pre \cup {ffop.block}
  /\ ffop.name = "Free" =>
        /\ ffop.block \in ffop.pre
        /\ allocated = ffop.pre \ {ffop.block}

\* Alloc has just passed over a gap at address 0 that was too small and
\* taken the gap after the first block, with a block allocated above it.
C28_Witness ==
  /\ ffop.name = "Alloc" /\ ffop.size = 2
  /\ Fits(ffop.pre, 0, 1)
  /\ \E a, b \in ffop.pre :
        EndOf(a) = ffop.block.start /\ EndOf(ffop.block) <= b.start

\* C29: get_high_water() never decreases and is the greatest end address
\* of the blocks Alloc has returned so far (0 if none), so it is at least
\* the end of every allocated block; and Free(b) followed at once by
\* Alloc(s) with s <= b's length does not raise it (Alloc; Free; Alloc of the
\* same size leaves it below twice the size).
C29_HighWater ==
  /\ get_high_water >= ffop.preHigh
  /\ get_high_water = maxEnd
  /\ \A b \in allocated : EndOf(b) <= get_high_water
  /\ (ffop.name = "Alloc" /\ ffop.refill) =>
        /\ get_high_water = ffop.preHigh
        /\ ffop.preHigh = ffop.size => get_high_water < 2 * ffop.size

\* As in main: Alloc(s), Free, Alloc(s), the Free having emptied the
\* allocator, so that the second Alloc took the path past the loop.
C29_Witness ==
  /\ ffop.name = "Alloc" /\ ffop.refill
  /\ ffop.pre = {} /\ ffop.size = MaxSize
  /\ ffop.preHigh = ffop.size
  /\ get_high_water = ffop.size /\ get_high_water < 2 * ffop.size

\* C30: for every sequence of Alloc(size) with any size >= 0, zero
\* included, and Free of allocated blocks, no assertion fails: not the one
\* in operator< that two blocks with the same start have the same length,
\* not those in Alloc and Free.  This fails: Alloc(0) returns a block of
\* length 0 at the start of the first gap it meets, which is the start of
\* an allocated block when the gap is empty.
C30_NoAssertionFailsWithZero ==
  ~ffAsserted

====
